---- MODULE Spec2Model ----
(***************************************************************************)
(* Model of the Japeri geoportal client (src/app.js): the layer registry   *)
(* and its asynchronous loader, the layer-visibility toggles, the          *)
(* reprojection of the housing-deficit layer, the classification engine    *)
(* (classifyData / getColorForValue), the thematic mapping of the census   *)
(* sectors, the hover styles, the popup and the attribute table.           *)
(*                                                                         *)
(* JavaScript values are tagged records [t, n]; numbers are modelled by    *)
(* integers.  The HTML page is not part of the sources: the initial DOM    *)
(* state is the one the script assumes (the 'bairros' checkbox checked,    *)
(* every other layer checkbox unchecked, the census-sector panels hidden,  *)
(* the thematic dropdown empty and its apply button disabled).             *)
(***************************************************************************)
EXTENDS Integers, Sequences, FiniteSets, Bags, TLC

\* ------------------------------------------------------------------ bounds
\* fetches issued in one session of the toggle/load state machine (Spec)
MaxFetches == 3
\* fetches issued in one session of the geometry state machine (SpecGeo)
MaxGeoFetches == 2
\* features of a fetched collection in SpecGeo
MaxGeoFeatures == 2
\* length of the value arrays handed to classifyData in SpecClassify
MaxValues == 5
\* length of the breaks handed to getColorForValue in SpecColor
MaxBreaks == 6
\* fetches issued in one session of the thematic state machine (SpecThematic)
MaxThematicFetches == 3
\* fetches issued in one session of the session state machine (SpecSession)
MaxSessionFetches == 2
\* fetches issued in one session of the popup state machine (SpecPopup)
MaxPopupFetches == 3

\* ------------------------------------------------------- JavaScript values
Num(k) == [t |-> "number", n |-> k]
NaN == [t |-> "NaN", n |-> 0]
Null == [t |-> "null", n |-> 0]
Undefined == [t |-> "undefined", n |-> 0]
\* the empty string ''
EmptyStr == [t |-> "empty", n |-> 0]
\* a string that is not the text of a number, such as 'Japeri'
Text == [t |-> "text", n |-> 0]
\* a string that is the text of the number k, such as '12'
NumStr(k) == [t |-> "numstr", n |-> k]

\* ECMAScript ToNumber yields NaN for these values
ToNumberIsNaN(v) == v.t \in {"NaN", "undefined", "text"}
\* ECMAScript ToNumber for the others: null and '' become 0
ToNumber(v) == IF v.t \in {"number", "numstr"} THEN v.n ELSE 0
\* the global isNaN(v)
isNaN(v) == ToNumberIsNaN(v)
\* parseFloat(v): only numbers and numeric strings parse
parseFloat(v) == IF v.t \in {"number", "numstr"} THEN Num(v.n) ELSE NaN
\* a >= b and a <= b when at least one side is a number (numeric comparison)
JsGe(a, b) == ~ToNumberIsNaN(a) /\ ~ToNumberIsNaN(b) /\ ToNumber(a) >= ToNumber(b)
JsLe(a, b) == ~ToNumberIsNaN(a) /\ ~ToNumberIsNaN(b) /\ ToNumber(a) <= ToNumber(b)
\* Math.abs(x) > 180 for an integer x
AbsGt180(x) == (IF x < 0 THEN -x ELSE x) > 180

\* ------------------------------------------------------------ configuration
Layers == {"bairros", "setores", "urb_rur", "deficit_hab", "residencia"}

LayerColor(l) ==
    CASE l = "bairros" -> "#667eea"
      [] l = "setores" -> "#f093fb"
      [] l = "urb_rur" -> "#4facfe"
      [] l = "deficit_hab" -> "#fa709a"
      [] l = "residencia" -> "#43e97b"

\* ------------------------------------------------------------------- state
VARIABLES
    call,           \* the call of a pure function under study: arguments and result
    files,          \* the data files on the server: layer name -> collection
    checked,        \* DOM: the layer checkboxes' checked flags
    dataLayers,     \* the registry: layer name -> layer object id, 0 = no entry
    layerObjs,      \* the L.geoJSON objects created so far, by id
    onMap,          \* ids of the layer objects currently added to the map
    loads,          \* bag of suspended loadLayer invocations
    fetchCount,     \* number of fetches issued per layer file
    loadingShown,   \* the loading indicator lacks the class 'hidden'
    loadingIndicator, \* the global loadingIndicator has been assigned
    attributeSelectorShown, \* #attributeSelector is displayed
    thematicPanelShown,     \* #thematicMappingPanel is displayed
    currentThematicAttribute, \* "" stands for null
    thematicBreaks,
    legend,         \* "placeholder" or the attribute label shown
    resetBtnShown,
    thematicSelectValue,
    applyBtnDisabled,
    unhandled,      \* unhandledrejection events queued for the window listener
    selectedAttributes, \* the attribute keys selected for the census-sector popup
    hovered,        \* the feature under the pointer: <<object id, index>>, <<0, 0>> = none
    popup,          \* the content of the popup opened last
    attributeTable, \* the rows of the attribute table
    last            \* the handler step that ran last and what it did

vars == <<call, files, checked, dataLayers, layerObjs, onMap, loads, fetchCount, loadingShown,
          loadingIndicator, attributeSelectorShown, thematicPanelShown,
          currentThematicAttribute, thematicBreaks, legend, resetBtnShown,
          thematicSelectValue, applyBtnDisabled, unhandled, selectedAttributes,
          hovered, popup, attributeTable, last>>

thematicVars == <<currentThematicAttribute, thematicBreaks, legend, resetBtnShown,
                  thematicSelectValue, applyBtnDisabled>>

\* what the pointer and the popup handlers write
pointerVars == <<hovered, popup, attributeTable>>


\* -------------------------------------------------- geometry and payloads
\* A coordinate is <<x, y>>; <<x>> is a malformed tuple (no second axis).
\* Point coordinates: a coordinate.  Polygon coordinates: a sequence of rings,
\* each a sequence of coordinates.  MultiPolygon: a sequence of polygons.

\* proj4('EPSG:31983', 'EPSG:4326', coord): UTM zone 23 south (central meridian
\* 45 W, false easting 500000, false northing 10000000) to whole degrees
Proj4(coord) ==
    << (coord[1] - 500000) \div 103000 - 45, 0 - ((10000000 - coord[2]) \div 110600) >>

\* proj4 rejects a coordinate tuple that lacks an axis
Proj4Throws(coord) == Len(coord) < 2

ReprojectRing(ring) == [k \in DOMAIN ring |-> Proj4(ring[k])]

ReprojectGeometry(f) ==
    IF f.type = "MultiPolygon"
    THEN [f EXCEPT !.coordinates =
             [p \in DOMAIN @ |-> [r \in DOMAIN @[p] |-> ReprojectRing(@[p][r])]]]
    ELSE IF f.type = "Polygon"
    THEN [f EXCEPT !.coordinates = [r \in DOMAIN @ |-> ReprojectRing(@[r])]]
    ELSE f

\* every coordinate tuple of a feature, flattened in document order
RECURSIVE Flatten(_)
Flatten(seqs) == IF seqs = <<>> THEN <<>> ELSE Head(seqs) \o Flatten(Tail(seqs))

CoordsOf(f) ==
    IF f.type = "MultiPolygon" THEN Flatten(Flatten(f.coordinates))
    ELSE IF f.type = "Polygon" THEN Flatten(f.coordinates)
    ELSE << f.coordinates >>

\* the sampling expression features[0].geometry.coordinates[0][0][0] faults on
\* a Point geometry: coordinates[0] is a number, [0] of it is undefined
SampleThrows(data) == Len(data.features) > 0 /\ data.features[1].type = "Point"

\* Math.abs(firstCoord[0]) > 180: on a MultiPolygon firstCoord is a coordinate
\* tuple; on a Polygon it is already the number x, firstCoord[0] is undefined
\* and the comparison of NaN is false
FirstCoordIsProjected(data) ==
    LET f == data.features[1]
    IN  /\ f.type = "MultiPolygon"
        /\ AbsGt180(f.coordinates[1][1][1][1])

\* the magnitude test lost: every housing-deficit collection is reprojected
NeedsReprojection_Always(layerName, data) ==
    /\ layerName = "deficit_hab"
    /\ Len(data.features) > 0

NeedsReprojection(layerName, data) ==
    /\ layerName = "deficit_hab"
    /\ Len(data.features) > 0
    /\ FirstCoordIsProjected(data)

\* the forEach over the features faults when proj4 meets a malformed tuple
ReprojectThrows(data) ==
    \E i \in DOMAIN data.features :
        /\ data.features[i].type \in {"MultiPolygon", "Polygon"}
        /\ \E k \in DOMAIN CoordsOf(data.features[i]) :
               Proj4Throws(CoordsOf(data.features[i])[k])

ReprojectAll(data) ==
    [data EXCEPT !.features = [i \in DOMAIN @ |-> ReprojectGeometry(@[i])]]

\* L.geoJSON builds a LatLng from every coordinate and faults on a missing axis
GeoJSONThrows(data) ==
    \E i \in DOMAIN data.features :
        \E k \in DOMAIN CoordsOf(data.features[i]) :
            Len(CoordsOf(data.features[i])[k]) < 2

\* ------------------------------------------------------------------ styles
\* a style keeps the options the handlers write; radius is 0 on a polygon
getFeatureStyle(color) ==
    [fillColor |-> color, weight |-> 2, color |-> color, fillOpacity |-> 3]

\* fillOpacity is kept in tenths (3 stands for 0.3)
InitialStyle(f, color) ==
    [fillColor |-> getFeatureStyle(color).fillColor,
     weight |-> getFeatureStyle(color).weight,
     color |-> getFeatureStyle(color).color,
     fillOpacity |-> getFeatureStyle(color).fillOpacity,
     radius |-> IF f.type = "Point" THEN 6 ELSE 0]

BairrosBorder(layerName, style) ==
    IF layerName = "bairros"
    THEN [style EXCEPT !.color = "#000000", !.weight = 2]
    ELSE style

\* the object L.geoJSON returns: one styled sub-layer per feature
NewLayerObj(layerName, data) ==
    [name |-> layerName,
     feats |-> [i \in DOMAIN data.features |->
                  [type |-> data.features[i].type,
                   coordinates |-> data.features[i].coordinates,
                   properties |-> data.features[i].properties,
                   style |-> BairrosBorder(layerName,
                                InitialStyle(data.features[i], LayerColor(layerName)))]]]

\* what loadLayer does with a parsed payload: "fault" or the collection rendered
LoadFaults(layerName, data) ==
    \/ layerName = "deficit_hab" /\ SampleThrows(data)
    \/ NeedsReprojection(layerName, data) /\ ReprojectThrows(data)
    \/ GeoJSONThrows(data)

Prepared(layerName, data) ==
    IF NeedsReprojection(layerName, data) THEN ReprojectAll(data) ELSE data


\* --------------------------------------------------------------- payloads
NoData == [features |-> << >>]

GeoCoord == << -43, -22 >>
GeoCoord2 == << -44, -23 >>
UtmCoord == << 650000, 7490000 >>
UtmCoord2 == << 640000, 7480000 >>
BadCoord == << 650000 >>
\* a feature without attributes
NoProps == [k \in {} |-> Null]

\* the collection each data file holds in the toggle/load state machine: one
\* feature in geographic coordinates (a point for the residences layer)
SimpleFeature(layerName) ==
    IF layerName = "residencia"
    THEN [type |-> "Point", coordinates |-> GeoCoord, properties |-> NoProps]
    ELSE [type |-> "MultiPolygon", coordinates |-> << << << GeoCoord >> >> >>,
          properties |-> IF layerName = "bairros" THEN ("NM_BAIRRO" :> Text)
                         ELSE IF layerName = "setores" THEN ("CD_SETOR" :> Text)
                         ELSE NoProps]

\* a feature in UTM with a coordinate that lacks an axis
FaultyFeature ==
    [type |-> "MultiPolygon", coordinates |-> << << << UtmCoord, BadCoord >> >> >>,
     properties |-> NoProps]

\* a polygon or multipolygon of one ring, in geographic or in UTM coordinates
GeoFeature(type, kind) ==
    LET ring == IF kind = "utm" THEN << UtmCoord, UtmCoord2 >>
                ELSE << GeoCoord, GeoCoord2 >>
    IN  [type |-> type,
         coordinates |-> IF type = "MultiPolygon" THEN << << ring >> >> ELSE << ring >>,
         properties |-> NoProps]

GeoFeatures ==
    { GeoFeature(type, kind) : type \in {"Polygon", "MultiPolygon"}, kind \in {"geo", "utm"} }

\* the collections a data file may hold in the geometry state machine: up to
\* MaxGeoFeatures polygon features, a point feature, a malformed one
GeoPayloads ==
    { [features |-> fs] : fs \in UNION { [1..k -> GeoFeatures] : k \in 0..MaxGeoFeatures } }
    \cup { [features |-> << SimpleFeature("residencia") >>],
           [features |-> << FaultyFeature >>] }

SimpleFiles == [l \in Layers |-> [features |-> << SimpleFeature(l) >>]]

\* ------------------------------------------------------ loading indicator
\* the class 'hidden' not added
HideLoading_Stays(shown, assigned) == shown

\* showLoading() followed later by hideLoading(): hideLoading is a no-op until
\* showLoading has assigned the global
HideLoading(shown, assigned) == IF assigned THEN FALSE ELSE shown

\* -------------------------------------------------------------- registry
TotalFetches ==
    fetchCount["bairros"] + fetchCount["setores"] + fetchCount["urb_rur"]
    + fetchCount["deficit_hab"] + fetchCount["residencia"]

\* the guard lost: loadLayer fetches whether or not the layer is registered
AlreadyLoaded_NoGuard(layerName) == FALSE

\* loadLayer's guard: a registered layer is not fetched again
AlreadyLoaded(layerName) == dataLayers[layerName] # 0

Load(layerName, caller, stage) ==
    [layer |-> layerName, caller |-> caller, stage |-> stage]

\* the record kept of the handler step that ran last
Step(op, layerName) == [op |-> op, layer |-> layerName]

\* ------------------------------------------------------- thematic mapping
\* setStyle of resetThematicMapping on one census-sector feature
ResetStyle(style) ==
    [style EXCEPT !.fillColor = LayerColor("setores"), !.weight = 2,
                  !.color = LayerColor("setores"), !.fillOpacity = 3]

\* the dropdown and the apply button left as they are
ResetThematicMapping_KeepsControls ==
    IF dataLayers["setores"] = 0
    THEN UNCHANGED <<layerObjs, thematicVars>>
    ELSE /\ layerObjs' = [layerObjs EXCEPT ![dataLayers["setores"]].feats =
                            [i \in DOMAIN @ |-> [@[i] EXCEPT !.style = ResetStyle(@)]]]
         /\ legend' = "placeholder"
         /\ currentThematicAttribute' = ""
         /\ thematicBreaks' = << >>
         /\ resetBtnShown' = FALSE
         /\ UNCHANGED <<thematicSelectValue, applyBtnDisabled>>

\* resetThematicMapping(): returns at once while 'setores' has no registry entry
ResetThematicMapping ==
    IF dataLayers["setores"] = 0
    THEN UNCHANGED <<layerObjs, thematicVars>>
    ELSE /\ layerObjs' = [layerObjs EXCEPT ![dataLayers["setores"]].feats =
                            [i \in DOMAIN @ |-> [@[i] EXCEPT !.style = ResetStyle(@)]]]
         /\ legend' = "placeholder"
         /\ currentThematicAttribute' = ""
         /\ thematicBreaks' = << >>
         /\ resetBtnShown' = FALSE
         /\ thematicSelectValue' = ""
         /\ applyBtnDisabled' = TRUE

\* ------------------------------------------------------------- selection
\* the initial value of selectedAttributes
DefaultSelection == {"CD_SETOR", "NM_MUN", "NM_DIST", "AREA_KM2", "v0001", "v0002", "v0007"}

\* no feature is under the pointer
NoFeature == << 0, 0 >>

\* no popup has been opened; the attribute table has no row
NoPopup == [title |-> "none", lines |-> << >>]
NoRows == [key \in {} |-> [fmt |-> "dash", v |-> [t |-> "null", n |-> 0]]]

\* ---------------------------------------------------------------- startup
\* The state when the DOMContentLoaded handlers have returned: initMap has
\* called loadDataLayers, which showed the indicator and is suspended in
\* loadLayer('bairros') at the fetch.
Started ==
    /\ checked = [l \in Layers |-> l = "bairros"]
    /\ dataLayers = [l \in Layers |-> 0]
    /\ layerObjs = << >>
    /\ onMap = {}
    /\ loads = SetToBag({Load("bairros", "startup", "fetch")})
    /\ fetchCount = [l \in Layers |-> IF l = "bairros" THEN 1 ELSE 0]
    /\ loadingShown = TRUE
    /\ loadingIndicator = TRUE
    /\ unhandled = 0
    /\ attributeSelectorShown = FALSE
    /\ thematicPanelShown = FALSE
    /\ currentThematicAttribute = ""
    /\ thematicBreaks = << >>
    /\ legend = "placeholder"
    /\ resetBtnShown = FALSE
    /\ thematicSelectValue = ""
    /\ applyBtnDisabled = TRUE
    /\ selectedAttributes = DefaultSelection
    /\ hovered = NoFeature
    /\ popup = NoPopup
    /\ attributeTable = NoRows
    /\ last = Step("init", "bairros")

NoCall == [fn |-> "none"]

Init ==
    /\ call = NoCall
    /\ files = SimpleFiles
    /\ Started

\* ----------------------------------------------------------- layer toggles
\* change event of a layer checkbox that becomes checked.  maxF bounds the
\* fetches of the session.
ToggleOn(layerName, maxF) ==
    /\ ~checked[layerName]
    /\ checked' = [checked EXCEPT ![layerName] = TRUE]
    /\ loadingIndicator' = TRUE
    /\ IF AlreadyLoaded(layerName)
       THEN \* loadLayer returns at once and the handler runs to its end
            /\ onMap' = onMap \cup {dataLayers[layerName]}
            /\ loadingShown' = FALSE
            /\ attributeSelectorShown' =
                   (IF layerName = "setores" THEN TRUE ELSE attributeSelectorShown)
            /\ thematicPanelShown' =
                   (IF layerName = "setores" THEN TRUE ELSE thematicPanelShown)
            /\ last' = Step("toggleOn", layerName)
            /\ UNCHANGED <<loads, fetchCount>>
       ELSE \* loadLayer issues the fetch and the handler is suspended
            /\ TotalFetches < maxF
            /\ loadingShown' = TRUE
            /\ loads' = loads (+) SetToBag({Load(layerName, "toggle", "fetch")})
            /\ fetchCount' = [fetchCount EXCEPT ![layerName] = @ + 1]
            /\ last' = Step("fetch", layerName)
            /\ UNCHANGED <<onMap, attributeSelectorShown, thematicPanelShown>>
    /\ UNCHANGED <<call, files, selectedAttributes, pointerVars, dataLayers, layerObjs, unhandled, thematicVars>>

\* map.removeLayer takes the hovered feature's element out of the page: no
\* mouseout is dispatched for it and nothing is under the pointer any more
HoveredAfterRemove(id) == IF id # 0 /\ hovered[1] = id THEN NoFeature ELSE hovered

\* the selection put back to its initial value with the panels hidden
HideSectorPanels_ClearsSelection ==
    /\ attributeSelectorShown' = FALSE
    /\ thematicPanelShown' = FALSE
    /\ selectedAttributes' = DefaultSelection

\* the census-sector panels are hidden; the selection is left as it is
HideSectorPanels ==
    /\ attributeSelectorShown' = FALSE
    /\ thematicPanelShown' = FALSE
    /\ UNCHANGED selectedAttributes

\* change event of a layer checkbox that becomes unchecked
ToggleOff(layerName) ==
    /\ checked[layerName]
    /\ checked' = [checked EXCEPT ![layerName] = FALSE]
    /\ onMap' = (IF dataLayers[layerName] # 0
                 THEN onMap \ {dataLayers[layerName]} ELSE onMap)
    /\ hovered' = HoveredAfterRemove(dataLayers[layerName])
    /\ IF layerName = "setores"
       THEN /\ HideSectorPanels
            /\ ResetThematicMapping
       ELSE UNCHANGED <<attributeSelectorShown, thematicPanelShown, layerObjs,
                        thematicVars, selectedAttributes>>
    /\ last' = Step("toggleOff", layerName)
    /\ UNCHANGED <<call, files, popup, attributeTable, dataLayers, loads, fetchCount,
                   loadingShown, loadingIndicator, unhandled>>

\* ------------------------------------------------------ load completions
\* loadLayer's catch block rethrows.  loadDataLayers catches and hides the
\* indicator; in the toggle handler the rejection is unhandled and the window's
\* unhandledrejection listener is queued.
LoadFails(ld) ==
    /\ loads' = loads (-) SetToBag({ld})
    /\ IF ld.caller = "startup"
       THEN /\ loadingShown' = HideLoading(loadingShown, loadingIndicator)
            /\ UNCHANGED unhandled
       ELSE /\ unhandled' = unhandled + 1
            /\ UNCHANGED loadingShown
    /\ last' = Step("failed", ld.layer)
    /\ UNCHANGED <<call, files, selectedAttributes, pointerVars, checked, dataLayers, layerObjs, onMap, fetchCount, loadingIndicator,
                   attributeSelectorShown, thematicPanelShown, thematicVars>>

\* the fetch promise rejects (network fault)
FetchRejects(ld) ==
    /\ BagIn(ld, loads)
    /\ ld.stage = "fetch"
    /\ LoadFails(ld)

\* the response arrives with a non-success status
FetchNotOk(ld) ==
    /\ BagIn(ld, loads)
    /\ ld.stage = "fetch"
    /\ LoadFails(ld)

\* the response arrives with response.ok: loadLayer awaits response.json()
FetchOk(ld) ==
    /\ BagIn(ld, loads)
    /\ ld.stage = "fetch"
    /\ loads' = (loads (-) SetToBag({ld})) (+) SetToBag({[ld EXCEPT !.stage = "json"]})
    /\ last' = Step("response", ld.layer)
    /\ UNCHANGED <<call, files, selectedAttributes, pointerVars, checked, dataLayers, layerObjs, onMap, fetchCount, loadingShown,
                   loadingIndicator, unhandled, attributeSelectorShown,
                   thematicPanelShown, thematicVars>>

\* response.json() rejects: the payload does not parse
JsonRejects(ld) ==
    /\ BagIn(ld, loads)
    /\ ld.stage = "json"
    /\ LoadFails(ld)

\* the object id loadLayer stores in the registry for the layer it built
Registered(layerName, newId) == newId

\* response.json() resolves with the file's collection: the rest of loadLayer,
\* then the rest of its caller
JsonResolves(ld) ==
    /\ BagIn(ld, loads)
    /\ ld.stage = "json"
    /\ IF LoadFaults(ld.layer, files[ld.layer])
       THEN LoadFails(ld)
       ELSE LET data == files[ld.layer]
                newId == Len(layerObjs) + 1
                reg == Registered(ld.layer, newId)
                \* loadLayer: add to map if checkbox is checked
                afterLoad == IF checked[ld.layer] THEN onMap \cup {newId} ELSE onMap
            IN  /\ layerObjs' = Append(layerObjs, NewLayerObj(ld.layer, Prepared(ld.layer, data)))
                /\ dataLayers' = [dataLayers EXCEPT ![ld.layer] = reg]
                /\ loads' = loads (-) SetToBag({ld})
                /\ loadingShown' = HideLoading(loadingShown, loadingIndicator)
                /\ IF ld.caller = "toggle"
                   THEN \* the change handler resumes after its await
                        /\ onMap' = afterLoad \cup {reg}
                        /\ attributeSelectorShown' =
                               (IF ld.layer = "setores" THEN TRUE ELSE attributeSelectorShown)
                        /\ thematicPanelShown' =
                               (IF ld.layer = "setores" THEN TRUE ELSE thematicPanelShown)
                   ELSE \* loadDataLayers resumes after its await
                        /\ onMap' = afterLoad
                        /\ UNCHANGED <<attributeSelectorShown, thematicPanelShown>>
                /\ last' = Step("loaded", ld.layer)
                /\ UNCHANGED <<call, files, selectedAttributes, pointerVars, checked, fetchCount, loadingIndicator, unhandled,
                               thematicVars>>

\* the window's unhandledrejection listener runs
UnhandledRejection ==
    /\ unhandled > 0
    /\ unhandled' = unhandled - 1
    /\ loadingShown' = HideLoading(loadingShown, loadingIndicator)
    /\ last' = Step("unhandledrejection", "window")
    /\ UNCHANGED <<call, files, selectedAttributes, pointerVars, checked, dataLayers, layerObjs, onMap, loads, fetchCount,
                   loadingIndicator, attributeSelectorShown, thematicPanelShown,
                   thematicVars>>

\* ------------------------------------------- the toggle/load state machine
Next ==
    \/ \E l \in Layers : ToggleOn(l, MaxFetches)
    \/ \E l \in Layers : ToggleOff(l)
    \/ \E ld \in BagToSet(loads) : FetchRejects(ld)
    \/ \E ld \in BagToSet(loads) : FetchNotOk(ld)
    \/ \E ld \in BagToSet(loads) : FetchOk(ld)
    \/ \E ld \in BagToSet(loads) : JsonRejects(ld)
    \/ \E ld \in BagToSet(loads) : JsonResolves(ld)
    \/ UnhandledRejection

Spec == Init /\ [][Next]_vars


\* ------------------------------------------------ the geometry state machine
\* One data file holds any of the collections of GeoPayloads; the session is
\* the startup load followed by layers being switched on, every response
\* arriving with ok.
InitGeo ==
    /\ call = NoCall
    /\ \E l \in Layers : \E d \in GeoPayloads : files = [SimpleFiles EXCEPT ![l] = d]
    /\ Started

NextGeo ==
    \/ \E l \in Layers : ToggleOn(l, MaxGeoFetches)
    \/ \E ld \in BagToSet(loads) : FetchOk(ld)
    \/ \E ld \in BagToSet(loads) : JsonResolves(ld)
    \/ UnhandledRejection

SpecGeo == InitGeo /\ [][NextGeo]_vars

\* ------------------------------------------------- classification engine
thematicColors ==
    << "#E0E0E0", "rgba(255, 255, 0, 0.5)", "rgba(255, 165, 0, 0.6)",
       "rgba(255, 0, 0, 0.7)", "#800080" >>

\* the default of classifyData's numClasses, and the value its caller passes
DefaultNumClasses == 5

\* values.filter(v => v !== null && v !== undefined && !isNaN(v))
IsValidValue(v) == v.t # "null" /\ v.t # "undefined" /\ ~isNaN(v)

ValidValues(values) == SelectSeq(values, IsValidValue)

\* the comparator (a, b) => a - b
Compare(a, b) == ToNumber(a) - ToNumber(b)

\* Array.prototype.sort with that comparator: a stable insertion
RECURSIVE InsertSorted(_, _)
InsertSorted(x, sorted) ==
    IF sorted = << >> THEN << x >>
    ELSE IF Compare(x, Head(sorted)) < 0 THEN << x >> \o sorted
    ELSE << Head(sorted) >> \o InsertSorted(x, Tail(sorted))

\* the array left unsorted
SortAscending_Unsorted(seq) == seq

RECURSIVE SortAscending(_)
SortAscending(seq) ==
    IF seq = << >> THEN << >>
    ELSE InsertSorted(seq[Len(seq)], SortAscending(SubSeq(seq, 1, Len(seq) - 1)))

\* the larger of the two taken
MinOf_Larger(a, b) == IF a < b THEN b ELSE a

\* Math.min(a, b)
MinOf(a, b) == IF a < b THEN a ELSE b

\* the index taken one place too far
BreakIndex_OffByOne(i, step, count) == MinOf(i * step + 1, count - 1)

\* Math.min(i * step, validValues.length - 1), a 0-based index
BreakIndex(i, step, count) == MinOf(i * step, count - 1)

classifyData(values, numClasses) ==
    LET validValues == SortAscending(ValidValues(values))
        count == Len(validValues)
        step == count \div numClasses
    IN  IF count = 0 THEN << >>
        ELSE << validValues[1] >>
             \o [i \in 1..(numClasses - 1) |-> validValues[BreakIndex(i, step, count) + 1]]
             \o << validValues[count] >>

\* colors[i] for a 0-based i; reading past the end of the array gives undefined
ColorAt(colors, i) == IF i + 1 \in DOMAIN colors THEN colors[i + 1] ELSE "undefined"

\* value === null || value === undefined || isNaN(value)
IsNoData(value) == value.t \in {"null", "undefined"} \/ isNaN(value)

\* the color of the interval above the one found
IntervalColor_Upper(colors, i) == ColorAt(colors, i + 1)

\* return colors[i] for the interval found at the 0-based i
IntervalColor(colors, i) == ColorAt(colors, i)

getColorForValue(value, breaks, colors) ==
    IF IsNoData(value) THEN "#cccccc"
    ELSE LET hits == { i \in 0..(Len(breaks) - 2) :
                         JsGe(value, breaks[i + 1]) /\ JsLe(value, breaks[i + 2]) }
         IN  IF hits # {}
             THEN IntervalColor(colors, CHOOSE i \in hits : \A j \in hits : i <= j)
             ELSE ColorAt(colors, Len(colors) - 1)

\* ------------------------------------------ classifyData called on its own
SeqsUpTo(S, n) == UNION { [1..k -> S] : k \in 0..n }

\* numbers, NaN, null and undefined: what the filter of classifyData tells apart
ClassifyNumbers == {-1, 0, 2}

ClassifyValues == { Num(k) : k \in ClassifyNumbers } \cup { NaN, Null, Undefined }

Scenario12 == [i \in 1..12 |-> Num(i)]

ClassifyInputs ==
    SeqsUpTo(ClassifyValues, MaxValues)
    \cup { Scenario12, [i \in 1..12 |-> Num(13 - i)] }

ClassifyCall(values, numClasses, ret, returned) ==
    [fn |-> "classifyData", values |-> values, numClasses |-> numClasses,
     ret |-> ret, returned |-> returned]

InitClassify ==
    /\ \E values \in ClassifyInputs : \E numClasses \in 1..DefaultNumClasses :
           call = ClassifyCall(values, numClasses, << >>, FALSE)
    /\ files = SimpleFiles
    /\ Started

mainVars == <<files, checked, dataLayers, layerObjs, onMap, loads, fetchCount,
              loadingShown, loadingIndicator, attributeSelectorShown,
              thematicPanelShown, thematicVars, unhandled, selectedAttributes,
              pointerVars, last>>

\* classifyData(values, numClasses) returns
Classify ==
    /\ call.fn = "classifyData"
    /\ ~call.returned
    /\ call' = [call EXCEPT !.ret = classifyData(call.values, call.numClasses),
                            !.returned = TRUE]
    /\ UNCHANGED mainVars

\* the same values handed over in another order (two neighbours exchanged);
\* the arrays longer than MaxValues are given in both orders from the start
ClassifyReordered(i) ==
    /\ call.fn = "classifyData"
    /\ call.returned
    /\ Len(call.values) <= MaxValues
    /\ i \in 1..(Len(call.values) - 1)
    /\ LET swapped == [call.values EXCEPT ![i] = call.values[i + 1],
                                          ![i + 1] = call.values[i]]
       IN  call' = [call EXCEPT !.values = swapped,
                                !.ret = classifyData(swapped, call.numClasses)]
    /\ UNCHANGED mainVars

NextClassify ==
    \/ Classify
    \/ \E i \in 1..(MaxValues - 1) : ClassifyReordered(i)

SpecClassify == InitClassify /\ [][NextClassify]_vars

\* -------------------------------------- getColorForValue called on its own
\* a property value as a GeoJSON file can hold it, or undefined for a missing key
BreakNumbers == {0, 1, 2}

ColorValues ==
    { Num(k) : k \in BreakNumbers \cup {-1, 3} }
    \cup { NumStr(k) : k \in BreakNumbers }
    \cup { NaN, Null, Undefined, EmptyStr, Text }

BreakSeqs == { [i \in DOMAIN b |-> Num(b[i])] : b \in SeqsUpTo(BreakNumbers, MaxBreaks) }

ColorSeqs == { SubSeq(thematicColors, 1, k) : k \in 1..Len(thematicColors) }

ColorCall(value, breaks, colors, ret, returned) ==
    [fn |-> "getColorForValue", value |-> value, breaks |-> breaks, colors |-> colors,
     ret |-> ret, returned |-> returned]

InitColor ==
    /\ \E value \in ColorValues : \E breaks \in BreakSeqs : \E colors \in ColorSeqs :
           call = ColorCall(value, breaks, colors, "", FALSE)
    /\ files = SimpleFiles
    /\ Started

\* getColorForValue(value, breaks, colors) returns
GetColor ==
    /\ call.fn = "getColorForValue"
    /\ ~call.returned
    /\ call' = [call EXCEPT !.ret = getColorForValue(call.value, call.breaks, call.colors),
                            !.returned = TRUE]
    /\ UNCHANGED mainVars

NextColor == GetColor

SpecColor == InitColor /\ [][NextColor]_vars

\* --------------------------------------------------- pointer on a feature
\* feature.properties[key]: undefined for a key the feature does not have
Prop(props, key) == IF key \in DOMAIN props THEN props[key] ELSE Undefined

\* layer instanceof L.CircleMarker: pointToLayer renders a Point as a circle marker
IsCircleMarker(f) == f.type = "Point"

\* getLayerName(layer): the registry key whose object holds the feature, or null
getLayerName(id) ==
    IF \E l \in Layers : dataLayers[l] = id
    THEN CHOOSE l \in Layers : dataLayers[l] = id
    ELSE "null"

\* the objects on the map are drawn in the order they were added; a later
\* object of the same data file covers the earlier one feature by feature
Hittable(id) ==
    /\ id \in onMap
    /\ \A other \in onMap : layerObjs[other].name = layerObjs[id].name => other <= id

\* the fill made opaque under the pointer
HighlightStyle_Opaque(f) ==
    IF IsCircleMarker(f)
    THEN [f.style EXCEPT !.radius = 8, !.weight = 3, !.color = "#ffffff",
                         !.fillOpacity = 7]
    ELSE [f.style EXCEPT !.weight = 3, !.color = "#ffffff", !.fillOpacity = 7]

\* the setStyle of highlightFeatureFixed
HighlightStyle(f) ==
    IF IsCircleMarker(f)
    THEN [f.style EXCEPT !.radius = 8, !.weight = 3, !.color = "#ffffff",
                         !.fillOpacity = f.style.fillOpacity,
                         !.fillColor = f.style.fillColor]
    ELSE [f.style EXCEPT !.weight = 3, !.color = "#ffffff",
                         !.fillOpacity = f.style.fillOpacity]

\* the setStyle of the thematic rendering, fillOpacity in tenths
ThematicStyle(style, fillColor, fillOpacity) ==
    [style EXCEPT !.fillColor = fillColor, !.weight = 1, !.color = "#000000",
                  !.fillOpacity = fillOpacity]

\* the setStyle calls of resetHighlight for a feature getLayerName resolved to layerName
ResetHighlightStyle(f, layerName) ==
    IF currentThematicAttribute # "" /\ layerName = "setores"
    THEN ThematicStyle(f.style,
             getColorForValue(Prop(f.properties, currentThematicAttribute),
                              thematicBreaks, thematicColors), 7)
    ELSE IF layerName \notin Layers
    THEN f.style
    ELSE IF IsCircleMarker(f)
    THEN [f.style EXCEPT !.radius = 6, !.fillColor = LayerColor(layerName),
                         !.color = "#ffffff", !.weight = 2, !.fillOpacity = 7]
    ELSE BairrosBorder(layerName,
             [f.style EXCEPT !.fillColor = getFeatureStyle(LayerColor(layerName)).fillColor,
                             !.weight = getFeatureStyle(LayerColor(layerName)).weight,
                             !.color = getFeatureStyle(LayerColor(layerName)).color,
                             !.fillOpacity = getFeatureStyle(LayerColor(layerName)).fillOpacity])

\* the record of a mouseover: the step and the options the feature had when
\* the handler was entered
HoverStep(layerName, options) ==
    [op |-> "mouseover", layer |-> layerName, options |-> options]

\* mouseover on the feature i of the object id
MouseOver(id, i) ==
    /\ hovered = NoFeature
    /\ id \in 1..Len(layerObjs)
    /\ Hittable(id)
    /\ i \in DOMAIN layerObjs[id].feats
    /\ layerObjs' = [layerObjs EXCEPT ![id].feats[i].style = HighlightStyle(layerObjs[id].feats[i])]
    /\ hovered' = << id, i >>
    /\ last' = HoverStep(layerObjs[id].name, layerObjs[id].feats[i].style)
    /\ UNCHANGED <<call, files, selectedAttributes, popup, attributeTable, checked,
                   dataLayers, onMap, loads, fetchCount, loadingShown, loadingIndicator,
                   attributeSelectorShown, thematicPanelShown, thematicVars, unhandled>>

\* mouseout of the feature under the pointer
MouseOut ==
    /\ hovered # NoFeature
    /\ LET id == hovered[1]
           i == hovered[2]
       IN  /\ layerObjs' = [layerObjs EXCEPT ![id].feats[i].style =
                               ResetHighlightStyle(layerObjs[id].feats[i], getLayerName(id))]
           /\ last' = Step("mouseout", layerObjs[id].name)
    /\ hovered' = NoFeature
    /\ UNCHANGED <<call, files, selectedAttributes, popup, attributeTable, checked,
                   dataLayers, onMap, loads, fetchCount, loadingShown, loadingIndicator,
                   attributeSelectorShown, thematicPanelShown, thematicVars, unhandled>>

\* ------------------------------------------------- popup and attribute table
\* the keys of allProps, in the order the object literal lists them
PopupVocabulary ==
    << "CD_SETOR", "NM_MUN", "NM_DIST", "NM_BAIRRO", "AREA_KM2", "v0001", "v0002",
       "v0003", "v0004", "v0005", "v0006", "v0007" >>

\* a value used as a condition
Truthy(v) ==
    \/ v.t \in {"text", "numstr"}
    \/ v.t = "number" /\ v.n # 0

\* the heading of the popup
PopupTitle(props) ==
    IF Truthy(Prop(props, "NM_BAIRRO")) THEN "NM_BAIRRO"
    ELSE IF Truthy(Prop(props, "CD_SETOR")) THEN "Setor Censitario"
    ELSE "Informacoes"

\* a formatted value: the formatting applied and the value it was applied to
Formatted(fmt, v) == [fmt |-> fmt, v |-> v]

\* the value of a popup line
PopupFormat(key, value) ==
    IF key \in {"AREA_KM2", "v0006"} THEN Formatted("toFixed4", parseFloat(value))
    ELSE IF key = "v0005" THEN Formatted("toFixed1", parseFloat(value))
    ELSE IF ~isNaN(value) /\ value.t # "empty" THEN Formatted("locale", parseFloat(value))
    ELSE Formatted("raw", value)

\* props[key] !== undefined && props[key] !== null && props[key] !== ''
HasPopupLine(props, key) == Prop(props, key).t \notin {"undefined", "null", "empty"}

\* the keys of propsToShow
PropsToShow(layerName, selected) ==
    IF layerName = "setores"
    THEN SelectSeq(PopupVocabulary, LAMBDA key : key \in selected)
    ELSE PopupVocabulary

\* the content showFeatureInfo hands to the popup
PopupContent(props, layerName, selected) ==
    LET keys == SelectSeq(PropsToShow(layerName, selected),
                          LAMBDA key : HasPopupLine(props, key))
    IN  [title |-> PopupTitle(props),
         lines |-> [k \in DOMAIN keys |->
                      [key |-> keys[k], value |-> PopupFormat(keys[k], props[keys[k]])]]]

\* the value cell of a table row
TableFormat(key, value) ==
    IF value.t \in {"null", "undefined", "empty"} THEN Formatted("dash", Null)
    ELSE IF key \in {"AREA_KM2", "v0006"} THEN Formatted("toFixed4", parseFloat(value))
    ELSE IF key = "v0005" THEN Formatted("toFixed1", parseFloat(value))
    ELSE IF ~isNaN(value) /\ value.t = "number" THEN Formatted("locale", value)
    ELSE Formatted("raw", value)

\* populateAttributeTable(properties): one row per entry of the properties
TableRows(props) ==
    [key \in DOMAIN props \ {"geometry"} |-> TableFormat(key, props[key])]

\* click on the feature i of the object id, which the pointer is over:
\* showFeatureInfo
Click(id, i) ==
    /\ id \in 1..Len(layerObjs)
    /\ Hittable(id)
    /\ i \in DOMAIN layerObjs[id].feats
    /\ hovered = << id, i >>
    /\ LET props == layerObjs[id].feats[i].properties
           layerName == getLayerName(id)
       IN  /\ attributeTable' = (IF layerName = "setores" THEN TableRows(props)
                                 ELSE attributeTable)
           /\ popup' = PopupContent(props, layerName, selectedAttributes)
    /\ last' = Step("click", layerObjs[id].name)
    /\ UNCHANGED <<call, files, selectedAttributes, hovered, checked, dataLayers, layerObjs,
                   onMap, loads, fetchCount, loadingShown, loadingIndicator,
                   attributeSelectorShown, thematicPanelShown, thematicVars, unhandled>>

\* the checkboxes of #attributesList that the popup sessions use
SelectorOptions == {"v0001", "v0005"}

\* change event of a checkbox of #attributesList; the page shows a box checked
\* exactly when its attribute is selected
AttributeSelectorChange(attribute, isChecked) ==
    /\ attributeSelectorShown
    /\ isChecked = (attribute \notin selectedAttributes)
    /\ selectedAttributes' = (IF isChecked THEN selectedAttributes \cup {attribute}
                              ELSE selectedAttributes \ {attribute})
    /\ last' = Step("attribute", "setores")
    /\ UNCHANGED <<call, files, pointerVars, checked, dataLayers, layerObjs, onMap, loads,
                   fetchCount, loadingShown, loadingIndicator, attributeSelectorShown,
                   thematicPanelShown, thematicVars, unhandled>>

\* ------------------------------------------------------- thematic mapping
\* the options of #thematicAttributeSelect that carry a value
ThematicOptions == {"v0001", "v0005"}

\* the values applyThematicMapping collects from the features of a layer object
RECURSIVE CollectValues(_, _)
CollectValues(feats, attributeKey) ==
    IF feats = << >> THEN << >>
    ELSE LET value == Prop(Head(feats).properties, attributeKey)
         IN  (IF value.t # "null" /\ value.t # "undefined" /\ ~isNaN(value)
              THEN << parseFloat(value) >> ELSE << >>)
             \o CollectValues(Tail(feats), attributeKey)

\* updateLegend faults on breaks[i].toLocaleString when breaks[i] is undefined
UpdateLegendThrows(breaks, colors) == \E i \in 1..Len(colors) : i > Len(breaks)

\* the breaks applyThematicMapping stores for the collected values
AppliedBreaks(values) == classifyData(values, DefaultNumClasses)

\* applyThematicMapping(attributeKey, attributeLabel), the label written as the key
applyThematicMapping(attributeKey) ==
    LET id == dataLayers["setores"]
        values == CollectValues(layerObjs[id].feats, attributeKey)
        breaks == AppliedBreaks(values)
    IN  IF id = 0
        THEN /\ last' = Step("applyAlert", "setores")
             /\ UNCHANGED <<layerObjs, currentThematicAttribute, thematicBreaks, legend,
                            resetBtnShown, loadingShown>>
        ELSE IF Len(values) = 0
        THEN /\ last' = Step("applyAlert", "setores")
             /\ UNCHANGED <<layerObjs, currentThematicAttribute, thematicBreaks, legend,
                            resetBtnShown, loadingShown>>
        ELSE /\ thematicBreaks' = breaks
             /\ currentThematicAttribute' = attributeKey
             /\ layerObjs' = [layerObjs EXCEPT ![id].feats =
                    [i \in DOMAIN @ |->
                        [@[i] EXCEPT !.style =
                            ThematicStyle(@, getColorForValue(
                                Prop(layerObjs[id].feats[i].properties, attributeKey),
                                breaks, thematicColors), 5)]]]
             /\ IF UpdateLegendThrows(breaks, thematicColors)
                THEN \* the fault leaves the click handler; the window's error
                     \* listener hides the loading indicator
                     /\ loadingShown' = HideLoading(loadingShown, loadingIndicator)
                     /\ last' = Step("applyError", "setores")
                     /\ UNCHANGED <<legend, resetBtnShown>>
                ELSE /\ legend' = attributeKey
                     /\ resetBtnShown' = TRUE
                     /\ last' = Step("apply", "setores")
                     /\ UNCHANGED loadingShown

\* click on #applyThematicBtn
ApplyClick ==
    /\ thematicPanelShown
    /\ ~applyBtnDisabled
    /\ IF thematicSelectValue # ""
       THEN applyThematicMapping(thematicSelectValue)
       ELSE /\ last' = Step("applyNothing", "setores")
            /\ UNCHANGED <<layerObjs, currentThematicAttribute, thematicBreaks, legend,
                           resetBtnShown, loadingShown>>
    /\ UNCHANGED <<call, files, selectedAttributes, pointerVars, checked, dataLayers, onMap,
                   loads, fetchCount, loadingIndicator, attributeSelectorShown,
                   thematicPanelShown, thematicSelectValue, applyBtnDisabled, unhandled>>

\* change event of #thematicAttributeSelect
SelectChange(value) ==
    /\ thematicPanelShown
    /\ value # thematicSelectValue
    /\ IF value # ""
       THEN /\ thematicSelectValue' = value
            /\ applyBtnDisabled' = FALSE
            /\ UNCHANGED <<layerObjs, currentThematicAttribute, thematicBreaks, legend,
                           resetBtnShown>>
       ELSE IF dataLayers["setores"] = 0
       THEN /\ thematicSelectValue' = value
            /\ applyBtnDisabled' = TRUE
            /\ UNCHANGED <<layerObjs, currentThematicAttribute, thematicBreaks, legend,
                           resetBtnShown>>
       ELSE ResetThematicMapping
    /\ last' = Step("select", "setores")
    /\ UNCHANGED <<call, files, selectedAttributes, pointerVars, checked, dataLayers, onMap,
                   loads, fetchCount, loadingShown, loadingIndicator,
                   attributeSelectorShown, thematicPanelShown, unhandled>>

\* click on #resetThematicBtn
ResetClick ==
    /\ thematicPanelShown
    /\ resetBtnShown
    /\ ResetThematicMapping
    /\ last' = Step("reset", "setores")
    /\ UNCHANGED <<call, files, selectedAttributes, pointerVars, checked, dataLayers, onMap,
                   loads, fetchCount, loadingShown, loadingIndicator,
                   attributeSelectorShown, thematicPanelShown, unhandled>>

\* ------------------------------------------------ the thematic state machine
\* a census-sector feature with the given values of v0001 and v0005; a JSON
\* file holds no undefined, the key is left out instead
SectorProps(v1, v5) ==
    [k \in {"CD_SETOR"} \cup (IF v1 = Undefined THEN {} ELSE {"v0001"})
                        \cup (IF v5 = Undefined THEN {} ELSE {"v0005"}) |->
        IF k = "CD_SETOR" THEN Text ELSE IF k = "v0001" THEN v1 ELSE v5]

SectorFeature(v1, v5) ==
    [type |-> "MultiPolygon", coordinates |-> << << << GeoCoord >> >> >>,
     properties |-> SectorProps(v1, v5)]

\* what a census attribute holds in a data file
SectorValues == { Num(1), Num(3), EmptyStr, Null, Undefined, Text }

\* the census-sector files of the thematic sessions: two sectors, v0001 varied
ThematicPayloads ==
    { [features |-> << SectorFeature(a, Num(2)), SectorFeature(b, Num(4)) >>] :
        a \in SectorValues, b \in {Num(3), EmptyStr, Null} }

\* the layers switched on and off in the thematic sessions
ThematicLayers == {"setores"}

\* The state when the startup load of 'bairros' has completed and
\* loadDataLayers has hidden the indicator.
StartupLoaded ==
    /\ checked = [l \in Layers |-> l = "bairros"]
    /\ dataLayers = [l \in Layers |-> IF l = "bairros" THEN 1 ELSE 0]
    /\ layerObjs = << NewLayerObj("bairros", files["bairros"]) >>
    /\ onMap = {1}
    /\ loads = EmptyBag
    /\ fetchCount = [l \in Layers |-> IF l = "bairros" THEN 1 ELSE 0]
    /\ loadingShown = FALSE
    /\ loadingIndicator = TRUE
    /\ unhandled = 0
    /\ attributeSelectorShown = FALSE
    /\ thematicPanelShown = FALSE
    /\ currentThematicAttribute = ""
    /\ thematicBreaks = << >>
    /\ legend = "placeholder"
    /\ resetBtnShown = FALSE
    /\ thematicSelectValue = ""
    /\ applyBtnDisabled = TRUE
    /\ selectedAttributes = DefaultSelection
    /\ hovered = NoFeature
    /\ popup = NoPopup
    /\ attributeTable = NoRows
    /\ last = Step("loaded", "bairros")

InitThematic ==
    /\ call = NoCall
    /\ \E d \in ThematicPayloads : files = [SimpleFiles EXCEPT !["setores"] = d]
    /\ StartupLoaded

\* the census-sector layer switched on and off, with its loads overlapping,
\* while attributes are classified and features hovered
NextThematic ==
    \/ \E l \in ThematicLayers : ToggleOn(l, MaxThematicFetches)
    \/ \E l \in ThematicLayers : ToggleOff(l)
    \/ \E ld \in BagToSet(loads) : FetchOk(ld)
    \/ \E ld \in BagToSet(loads) : JsonResolves(ld)
    \/ \E value \in ThematicOptions \cup {""} : SelectChange(value)
    \/ ApplyClick
    \/ ResetClick
    \/ \E id \in 1..Len(layerObjs) : \E i \in DOMAIN layerObjs[id].feats : MouseOver(id, i)
    \/ MouseOut

SpecThematic == InitThematic /\ [][NextThematic]_vars

\* ---------------------------------------------------- the popup state machine
\* the census-sector files of the popup sessions: two sectors, v0005 varied
PopupPayloads ==
    { [features |-> << SectorFeature(Num(1), a), SectorFeature(NumStr(3), b) >>] :
        a \in SectorValues, b \in {Num(3), Undefined} }

InitPopup ==
    /\ call = NoCall
    /\ \E d \in PopupPayloads : files = [SimpleFiles EXCEPT !["setores"] = d]
    /\ StartupLoaded

\* the census-sector layer switched on and off, with its loads overlapping,
\* while popup attributes are selected and features hovered and clicked
NextPopup ==
    \/ \E l \in ThematicLayers : ToggleOn(l, MaxPopupFetches)
    \/ \E l \in ThematicLayers : ToggleOff(l)
    \/ \E ld \in BagToSet(loads) : FetchOk(ld)
    \/ \E ld \in BagToSet(loads) : JsonResolves(ld)
    \/ \E attribute \in SelectorOptions : \E isChecked \in BOOLEAN :
           AttributeSelectorChange(attribute, isChecked)
    \/ \E id \in 1..Len(layerObjs) : \E i \in DOMAIN layerObjs[id].feats : MouseOver(id, i)
    \/ MouseOut
    \/ \E id \in 1..Len(layerObjs) : \E i \in DOMAIN layerObjs[id].feats : Click(id, i)

SpecPopup == InitPopup /\ [][NextPopup]_vars

\* -------------------------------------------------- the session state machine
\* the census-sector file of the sessions: one sector, v0005 null or missing
SessionPayloads ==
    { [features |-> << SectorFeature(Num(1), a) >>] : a \in {Null, Undefined} }

\* the layers switched on and off in the sessions
SessionLayers == {"setores", "residencia"}

\* the checkbox of #attributesList that the sessions use
SessionSelectorOptions == {"v0005"}

InitSession ==
    /\ call = NoCall
    /\ \E d \in SessionPayloads : files = [SimpleFiles EXCEPT !["setores"] = d]
    /\ StartupLoaded

\* every handler of the page: layer toggles, load outcomes, the attribute
\* selector, the thematic controls and the pointer on the features
NextSession ==
    \/ \E l \in SessionLayers : ToggleOn(l, MaxSessionFetches)
    \/ \E l \in SessionLayers : ToggleOff(l)
    \/ \E ld \in BagToSet(loads) : FetchNotOk(ld)
    \/ \E ld \in BagToSet(loads) : FetchOk(ld)
    \/ \E ld \in BagToSet(loads) : JsonResolves(ld)
    \/ UnhandledRejection
    \/ \E attribute \in SessionSelectorOptions : \E isChecked \in BOOLEAN :
           AttributeSelectorChange(attribute, isChecked)
    \/ \E value \in ThematicOptions \cup {""} : SelectChange(value)
    \/ ApplyClick
    \/ ResetClick
    \/ \E id \in 1..Len(layerObjs) : \E i \in DOMAIN layerObjs[id].feats : MouseOver(id, i)
    \/ MouseOut
    \/ \E id \in 1..Len(layerObjs) : \E i \in DOMAIN layerObjs[id].feats : Click(id, i)

SpecSession == InitSession /\ [][NextSession]_vars

\* ================================================================ claims
\* loads of a layer that are suspended at one of loadLayer's awaits
PendingLoads(layerName) ==
    CopiesIn(Load(layerName, "startup", "fetch"), loads)
    + CopiesIn(Load(layerName, "startup", "json"), loads)
    + CopiesIn(Load(layerName, "toggle", "fetch"), loads)
    + CopiesIn(Load(layerName, "toggle", "json"), loads)

\* some object built for the layer is on the map
IsOnMap(layerName) == \E id \in onMap : layerObjs[id].name = layerName

\* C1: whenever no load of a layer is pending, the layer is on the map only if
\* its checkbox is checked (a toggle-on followed by a toggle-off before the
\* fetch completes leaves the layer off the map).
C1_OnMapOnlyIfChecked ==
    \A l \in Layers : (PendingLoads(l) = 0 /\ IsOnMap(l)) => checked[l]

\* C2: once a layer is registered it stays registered and no step issues a
\* further fetch of its file.
C2_NoRefetchOnceLoaded ==
    [][\A l \in Layers :
          dataLayers[l] # 0 => (fetchCount'[l] = fetchCount[l] /\ dataLayers'[l] # 0)]_vars

\* C2 witness: the census-sector layer was loaded by its single fetch, hidden,
\* and has just been shown again from the registry.
C2_Witness ==
    /\ last = Step("toggleOn", "setores")
    /\ fetchCount["setores"] = 1
    /\ dataLayers["setores"] \in onMap

\* C3: right after a load of a layer has failed, the registry has no entry for
\* the layer (so the next loadLayer fetches again) and the layer is not on the map.
C3_FailedLoadLeavesNoEntry ==
    last.op = "failed" => (dataLayers[last.layer] = 0 /\ ~IsOnMap(last.layer))

\* C4: at most one load of a layer is pending at any time.
C4_OneLoadPerLayer == \A l \in Layers : PendingLoads(l) <= 1

\* the object the first successful load of a layer created
FirstObj(layerName) ==
    CHOOSE id \in 1..Len(layerObjs) :
        /\ layerObjs[id].name = layerName
        /\ \A other \in 1..(id - 1) : layerObjs[other].name # layerName

\* C5: a registry entry is the object of the first successful load of its
\* layer, and every object on the map is the registered object of its layer.
C5_RegistryEntryIsFirstLoad ==
    /\ \A l \in Layers : dataLayers[l] # 0 => dataLayers[l] = FirstObj(l)
    /\ \A id \in onMap : dataLayers[layerObjs[id].name] = id



\* the first coordinate of the first feature's geometry
FirstSampledCoord(data) == CoordsOf(data.features[1])[1]

\* the collection fetched by the load that has just completed, and the object
\* loadLayer built from it
LoadedData == files[last.layer]
LoadedObj == layerObjs[Len(layerObjs)]

\* C9: a collection whose first sampled coordinate has first-axis magnitude
\* <= 180 keeps every coordinate of every feature as fetched, for every layer.
C9_GeographicNeverReprojected ==
    (/\ last.op = "loaded"
     /\ Len(LoadedData.features) > 0
     /\ ~AbsGt180(FirstSampledCoord(LoadedData)[1]))
    => \A i \in DOMAIN LoadedData.features :
           LoadedObj.feats[i].coordinates = LoadedData.features[i].coordinates

\* C9 witness: the housing-deficit layer has loaded a collection that starts in
\* geographic coordinates and holds a later feature in projected coordinates.
C9_Witness ==
    /\ last = Step("loaded", "deficit_hab")
    /\ Len(LoadedData.features) > 1
    /\ LoadedData.features[1] = GeoFeature("MultiPolygon", "geo")
    /\ LoadedData.features[2] = GeoFeature("Polygon", "utm")

\* C10 (on the housing-deficit layer, the one the detection is written for):
\* when the first coordinate of the first feature's geometry has first-axis
\* magnitude > 180, whether that feature is a Polygon or a MultiPolygon, every
\* coordinate of every feature of the loaded layer is the reprojected one.
C10_ProjectedFullyReprojected ==
    (/\ last = Step("loaded", "deficit_hab")
     /\ Len(LoadedData.features) > 0
     /\ AbsGt180(FirstSampledCoord(LoadedData)[1]))
    => \A i \in DOMAIN LoadedData.features :
           \A k \in DOMAIN CoordsOf(LoadedData.features[i]) :
               CoordsOf(LoadedObj.feats[i])[k] = Proj4(CoordsOf(LoadedData.features[i])[k])


\* ---- classifyData
\* positions of the numbers of an array (NaN, null and undefined are not)
NumberPositions(values) == { i \in DOMAIN values : values[i].t = "number" }

NumbersOf(values) == { values[i].n : i \in NumberPositions(values) }

IsNonDecreasing(seq) == \A i \in 1..(Len(seq) - 1) : seq[i].n <= seq[i + 1].n

\* C6: when at least numClasses of the values are valid numbers, the breaks
\* have numClasses + 1 entries, are non-decreasing, and run from the minimum to
\* the maximum of the valid values.
C6_BreaksShape ==
    (/\ call.fn = "classifyData"
     /\ call.returned
     /\ Cardinality(NumberPositions(call.values)) >= call.numClasses)
    => /\ Len(call.ret) = call.numClasses + 1
       /\ IsNonDecreasing(call.ret)
       /\ \A x \in NumbersOf(call.values) : call.ret[1].n <= x
       /\ call.ret[1].n \in NumbersOf(call.values)
       /\ \A x \in NumbersOf(call.values) : x <= call.ret[Len(call.ret)].n
       /\ call.ret[Len(call.ret)].n \in NumbersOf(call.values)

\* C6 witness: five unsorted values among which exactly three are valid,
\* classified into three classes.
C6_Witness ==
    call = ClassifyCall(<< Num(2), Null, Num(-1), NaN, Num(0) >>, 3,
                        << Num(-1), Num(0), Num(2), Num(2) >>, TRUE)

\* the k-th smallest (k from 1) of the valid numbers, by counting
KthSmallest(values, k) ==
    CHOOSE x \in NumbersOf(values) :
        /\ Cardinality({ i \in NumberPositions(values) : values[i].n < x }) < k
        /\ Cardinality({ i \in NumberPositions(values) : values[i].n <= x }) >= k

\* the breaks as the specification words them
ReferenceBreaks(values, n) ==
    LET count == Cardinality(NumberPositions(values))
        step == count \div n
    IN  IF count = 0 THEN << >>
        ELSE [j \in 1..(n + 1) |->
                IF j = 1 THEN Num(KthSmallest(values, 1))
                ELSE IF j = n + 1 THEN Num(KthSmallest(values, count))
                ELSE Num(KthSmallest(values,
                         (IF (j - 1) * step < count - 1 THEN (j - 1) * step ELSE count - 1) + 1))]

\* C7: classifyData returns the reference breaks [s[0], s[min(step, count-1)],
\* ..., s[min((n-1)*step, count-1)], s[count-1]] of the sorted valid values;
\* 1..12 in five classes gives [1,3,5,7,9,12]; no valid value gives the empty
\* sequence; and handing the values over in another order changes nothing.
C7_ReferenceBreaks ==
    /\ [](call.fn = "classifyData" /\ call.returned
          => /\ call.ret = ReferenceBreaks(call.values, call.numClasses)
             /\ (call.values = Scenario12 /\ call.numClasses = 5
                 => call.ret = << Num(1), Num(3), Num(5), Num(7), Num(9), Num(12) >>)
             /\ (NumberPositions(call.values) = {} => call.ret = << >>))
    /\ [][call.fn = "classifyData" /\ call.returned /\ call'.returned
          => call'.ret = call.ret]_vars

\* C7 witness: the twelve values 1..12 classified into five classes.
C7_Witness ==
    /\ call.fn = "classifyData"
    /\ call.returned
    /\ call.values = Scenario12
    /\ call.numClasses = 5
    /\ Len(call.ret) = 6

\* ---- getColorForValue
\* a value that is missing or is not a number: null, undefined (absent key),
\* NaN, the empty string, a text
IsMissingOrNonNumeric(value) == value.t \in {"null", "undefined", "NaN", "empty", "text"}

InRange(seq, k) == \E i \in DOMAIN seq : seq[i] = k

\* C8: gray for a missing or non-numeric value; for a numeric value within
\* [breaks[0], breaks[last]], with non-decreasing breaks one longer than the
\* colors, one of the supplied colors.
C8_GrayOrSuppliedColor ==
    (call.fn = "getColorForValue" /\ call.returned)
    => /\ IsMissingOrNonNumeric(call.value) => call.ret = "#cccccc"
       /\ (/\ ~IsMissingOrNonNumeric(call.value)
           /\ Len(call.breaks) = Len(call.colors) + 1
           /\ IsNonDecreasing(call.breaks)
           /\ call.breaks[1].n <= call.value.n
           /\ call.value.n <= call.breaks[Len(call.breaks)].n)
          => InRange(call.colors, call.ret)

\* ---- classification state and feature styles
\* resetThematicMapping has just run with the census-sector layer registered:
\* from the reset button, from the dropdown set back to its empty option, or
\* from the census-sector checkbox being unchecked
ResetRan ==
    /\ dataLayers["setores"] # 0
    /\ \/ last.op = "reset"
       \/ last = Step("toggleOff", "setores")
       \/ last.op = "select" /\ thematicSelectValue = ""

\* the features rendered from the census-sector file
SectorFeatures ==
    { << id, i >> \in (1..Len(layerObjs)) \X (1..2) :
        layerObjs[id].name = "setores" /\ i \in DOMAIN layerObjs[id].feats }

StyleOf(ft) == layerObjs[ft[1]].feats[ft[2]].style

IsBaseStyle(style) ==
    /\ style.fillColor = LayerColor("setores")
    /\ style.color = LayerColor("setores")
    /\ style.weight = 2
    /\ style.fillOpacity = 3

\* C11: right after resetThematicMapping has run with the census-sector layer
\* loaded, every census-sector feature has fillColor = base color, stroke color
\* = base color, weight 2 and fillOpacity 0.3, no classification is active
\* (attribute null, breaks empty) and the legend shows the placeholder.
C11_ResetRestoresBaseStyle ==
    ResetRan => /\ \A ft \in SectorFeatures : IsBaseStyle(StyleOf(ft))
                /\ currentThematicAttribute = ""
                /\ thematicBreaks = << >>
                /\ legend = "placeholder"

\* C12: right after the change handler of the census-sector checkbox has run
\* for an unchecking, no classification is active (attribute null, breaks
\* empty), the legend shows the placeholder, the reset button is hidden, the
\* attribute dropdown is empty and the apply button is disabled.
C12_SectorsOffClearsClassification ==
    last = Step("toggleOff", "setores")
    => /\ currentThematicAttribute = ""
       /\ thematicBreaks = << >>
       /\ legend = "placeholder"
       /\ ~resetBtnShown
       /\ thematicSelectValue = ""
       /\ applyBtnDisabled

\* C12 witness: the census-sector checkbox has just been unchecked with the
\* layer registered, so that resetThematicMapping ran to its end.
C12_Witness ==
    /\ last = Step("toggleOff", "setores")
    /\ dataLayers["setores"] # 0
    /\ dataLayers["setores"] \notin onMap
    /\ ~thematicPanelShown
    /\ hovered = NoFeature

\* the numbers the registered census-sector features hold for an attribute
SectorNumbers(attributeKey) ==
    { Prop(layerObjs[dataLayers["setores"]].feats[i].properties, attributeKey).n :
        i \in { j \in DOMAIN layerObjs[dataLayers["setores"]].feats :
                  Prop(layerObjs[dataLayers["setores"]].feats[j].properties,
                       attributeKey).t \in {"number", "numstr"} } }

\* C13: while a classification is active, the stored breaks are those of the
\* current attribute's numeric values over the loaded census-sector features:
\* six entries (five classes), the first the minimum and the last the maximum
\* of those values.
C13_BreaksBelongToAttribute ==
    currentThematicAttribute # ""
    => /\ dataLayers["setores"] # 0
       /\ Len(thematicBreaks) = DefaultNumClasses + 1
       /\ SectorNumbers(currentThematicAttribute) # {}
       /\ \A x \in SectorNumbers(currentThematicAttribute) :
              thematicBreaks[1].n <= x /\ x <= thematicBreaks[Len(thematicBreaks)].n
       /\ thematicBreaks[1].n \in SectorNumbers(currentThematicAttribute)
       /\ thematicBreaks[Len(thematicBreaks)].n \in SectorNumbers(currentThematicAttribute)

\* ---- loading indicator
\* every issued fetch has completed and every handler it woke has run
Quiescent == loads = EmptyBag /\ unhandled = 0

\* C14: whatever the toggles and the fetch outcomes were, once every issued
\* fetch has completed and its handlers (the window's unhandledrejection
\* listener included) have run, the loading indicator is hidden.
C14_IndicatorHiddenWhenQuiescent == Quiescent => ~loadingShown

\* C14 witness: a toggle-triggered load has failed, the rejection reached the
\* window's listener, and nothing is pending any more.
C14_Witness ==
    /\ last.op = "unhandledrejection"
    /\ Quiescent
    /\ ~loadingShown
    /\ \E l \in Layers : checked[l] /\ dataLayers[l] = 0

\* ---- popup and attribute table
\* the feature under the pointer, which a click has just been dispatched to
Clicked == layerObjs[hovered[1]].feats[hovered[2]]

\* a census-sector feature has just been clicked
SectorClicked == last = Step("click", "setores")

PopupKeys == { popup.lines[k].key : k \in DOMAIN popup.lines }

\* C15: after a click on a census-sector feature whose v0005 is missing (null,
\* the empty string, or no such key), the popup has no line for v0005 and the
\* attribute table has a row for v0005 that shows '-'.
C15_MissingValueDashInTable ==
    (SectorClicked /\ Prop(Clicked.properties, "v0005").t \in {"null", "empty", "undefined"})
    => /\ "v0005" \notin PopupKeys
       /\ "v0005" \in DOMAIN attributeTable
       /\ attributeTable["v0005"].fmt = "dash"

\* ---- getColorForValue on a boundary
\* the 1-based interval [breaks[j], breaks[j + 1]] holds the number x
Holds(breaks, j, x) == breaks[j].n <= x /\ x <= breaks[j + 1].n

IsIncreasing(seq) == \A i \in 1..(Len(seq) - 1) : seq[i].n < seq[i + 1].n

\* C16: for a numeric value that some interval holds, getColorForValue returns
\* the color of the first interval that holds it, duplicates among the breaks
\* included; so a value equal to an internal break of increasing breaks gets
\* the color of the interval below that break.
C16_BoundaryTakesLowerInterval ==
    (/\ call.fn = "getColorForValue"
     /\ call.returned
     /\ call.value.t \in {"number", "numstr"})
    => /\ \A j \in 1..(Len(call.breaks) - 1) :
              (/\ Holds(call.breaks, j, call.value.n)
               /\ \A k \in 1..(j - 1) : ~Holds(call.breaks, k, call.value.n))
              => call.ret = (IF j \in DOMAIN call.colors THEN call.colors[j] ELSE "undefined")
       /\ \A i \in 2..(Len(call.breaks) - 1) :
              (IsIncreasing(call.breaks) /\ call.value.n = call.breaks[i].n)
              => call.ret = (IF i - 1 \in DOMAIN call.colors THEN call.colors[i - 1]
                             ELSE "undefined")

\* C16 witness: the value 1 looked up in the breaks [0, 1, 1, 2] with four
\* colors has been given the first color.
C16_Witness ==
    call = ColorCall(Num(1), << Num(0), Num(1), Num(1), Num(2) >>,
                     SubSeq(thematicColors, 1, 4), thematicColors[1], TRUE)

\* ---- hover
\* C17: a mouseover leaves the fill color and the fill opacity of the feature
\* as they were, whatever the layer, the geometry and the classification; it
\* sets the stroke weight to 3 and the stroke color to white, the radius to 8
\* on a point, and changes the style of no other feature.
C17_HoverKeepsFill ==
    [][(hovered = NoFeature /\ hovered' # NoFeature)
       => LET id == hovered'[1]
              i == hovered'[2]
              old == layerObjs[id].feats[i]
              new == layerObjs'[id].feats[i]
          IN  /\ new.style.fillColor = old.style.fillColor
              /\ new.style.fillOpacity = old.style.fillOpacity
              /\ new.style.weight = 3
              /\ new.style.color = "#ffffff"
              /\ new.style.radius = (IF old.type = "Point" THEN 8 ELSE old.style.radius)
              /\ layerObjs' = [layerObjs EXCEPT ![id].feats[i].style = new.style]]_vars

\* C17 witness: a residence (a point) that had been hovered and left before
\* is under the pointer again, with the fill the mouseout gave it.
C17_Witness ==
    /\ last.op = "mouseover"
    /\ last.layer = "residencia"
    /\ hovered # NoFeature
    /\ Clicked.type = "Point"
    /\ Clicked.style.radius = 8
    /\ Clicked.style.fillOpacity = 7
    /\ Clicked.style.fillColor = LayerColor("residencia")

\* ---- selection
\* C18: selectedAttributes is changed by the change handler of the attribute
\* checkboxes and by no other step: layer toggles, load completions and
\* failures, apply, reset, the dropdown, mouseover, mouseout and click leave it
\* as it is.
C18_SelectionChangedOnlyBySelector ==
    [][selectedAttributes' # selectedAttributes => last' = Step("attribute", "setores")]_vars

\* C18 witness: v0005 was added to the selection and the census-sector layer
\* has then been hidden; the selection still holds v0005.
C18_Witness ==
    /\ last = Step("toggleOff", "setores")
    /\ dataLayers["setores"] # 0
    /\ selectedAttributes = DefaultSelection \cup {"v0005"}

\* the vocabulary keys whose value on the feature is present and not empty
PresentKeys(props) ==
    { key \in DOMAIN props : props[key].t \notin {"null", "undefined", "empty"} }

\* C19: the popup opened by a click lists, in the order of the vocabulary,
\* exactly the vocabulary keys whose value on the clicked feature is present
\* and not empty: those among them that are in selectedAttributes when the
\* feature is a census-sector feature, all of them for any other layer.
C19_PopupListsSelectedPresentKeys ==
    last.op = "click"
    => LET shown == IF layerObjs[hovered[1]].name = "setores"
                    THEN PresentKeys(Clicked.properties) \cap selectedAttributes
                    ELSE PresentKeys(Clicked.properties)
           expected == SelectSeq(PopupVocabulary, LAMBDA key : key \in shown)
       IN  /\ Len(popup.lines) = Len(expected)
           /\ \A k \in DOMAIN expected : popup.lines[k].key = expected[k]

\* the fill color the classification state prescribes for a census-sector feature
PrescribedFill(ft) ==
    IF currentThematicAttribute # ""
    THEN getColorForValue(Prop(layerObjs[ft[1]].feats[ft[2]].properties,
                               currentThematicAttribute),
                          thematicBreaks, thematicColors)
    ELSE LayerColor("setores")

\* C20: in every state, whatever the order of apply, reset, mouseover and
\* mouseout, the fill color of each loaded census-sector feature is
\* getColorForValue(feature[attribute], breaks, colors) while a classification
\* is active and the base color of the layer while none is.
C20_FillFollowsClassification ==
    \A ft \in SectorFeatures : StyleOf(ft).fillColor = PrescribedFill(ft)

\* C21: a mouseover followed at once by the mouseout of the same feature
\* leaves the feature with the style it had before the mouseover (fill color,
\* fill opacity, stroke color, stroke weight, radius), on every layer and in
\* every classification state.
C21_HoverRoundTrip ==
    [][(last.op = "mouseover" /\ hovered # NoFeature /\ hovered' = NoFeature
        /\ last'.op = "mouseout")
       => layerObjs'[hovered[1]].feats[hovered[2]].style = last.options]_vars

\* ---- classification and the census-sector checkbox
\* C22: in every state a classification is active only if the census-sector
\* layer is loaded and its checkbox is checked, and the thematic panel is
\* displayed only while that checkbox is checked.
C22_ClassificationOnlyWhileChecked ==
    /\ currentThematicAttribute # ""
           => (dataLayers["setores"] # 0 /\ checked["setores"])
    /\ thematicPanelShown => checked["setores"]

\* ---- apply that cannot classify
\* the step is a run of applyThematicMapping
ApplyRan == last'.op \in {"apply", "applyAlert", "applyError"}

\* the census-sector layer is not loaded, or none of its features holds a
\* number for the attribute
CannotClassify(attributeKey) ==
    \/ dataLayers["setores"] = 0
    \/ SectorNumbers(attributeKey) = {}

\* C23: an apply that cannot classify (the census-sector layer not loaded, or
\* every value of the chosen attribute null, absent, '' or non-numeric)
\* changes neither the current attribute, nor the breaks, nor any feature
\* style, nor the legend: it only raises a notification.
C23_FailedApplyChangesNothing ==
    [][(ApplyRan /\ CannotClassify(thematicSelectValue))
       => /\ UNCHANGED <<currentThematicAttribute, thematicBreaks, layerObjs, legend>>
          /\ last'.op = "applyAlert"]_vars

\* ---- classifyData on few values
\* the smallest and the largest of the valid numbers
MinNumber(values) == CHOOSE x \in NumbersOf(values) : \A y \in NumbersOf(values) : x <= y
MaxNumber(values) == CHOOSE x \in NumbersOf(values) : \A y \in NumbersOf(values) : y <= x

\* C24: for every input with at least one valid value, fewer than numClasses
\* included, classifyData returns numClasses + 1 breaks in non-decreasing
\* order; with fewer valid values than numClasses the step is 0, the first
\* numClasses breaks all equal the minimum and the last equals the maximum.
C24_FewValuesBreaks ==
    (/\ call.fn = "classifyData"
     /\ call.returned
     /\ NumberPositions(call.values) # {})
    => /\ Len(call.ret) = call.numClasses + 1
       /\ IsNonDecreasing(call.ret)
       /\ Cardinality(NumberPositions(call.values)) < call.numClasses
          => /\ Cardinality(NumberPositions(call.values)) \div call.numClasses = 0
             /\ \A i \in 1..call.numClasses :
                    call.ret[i] = Num(MinNumber(call.values))
             /\ call.ret[call.numClasses + 1] = Num(MaxNumber(call.values))

\* C24 witness: two valid values among four, given in descending order,
\* classified into five classes.
C24_Witness ==
    call = ClassifyCall(<< Num(2), Null, NaN, Num(-1) >>, 5,
                        << Num(-1), Num(-1), Num(-1), Num(-1), Num(-1), Num(2) >>, TRUE)

\* ---- loading indicator while loads are pending
\* C25: the loading indicator is shown in every state in which a startup or
\* toggle-triggered load is still pending; the completion of one layer's load
\* never hides it while another layer's load is pending.
C25_IndicatorShownWhilePending == loads # EmptyBag => loadingShown
====
